---- MODULE Spec2Model ----
(***************************************************************************)
(* Attendance tracking views of core/views.py: role dispatch, bulk         *)
(* attendance marking (update_or_create per enrolled student), single      *)
(* attendance form, and the teacher / student dashboards.                  *)
(*                                                                         *)
(* The relational store is the state: Teacher and Student rows keyed by    *)
(* user, the Course.students many-to-many relation, and the Attendance     *)
(* table.  The table has a surrogate primary key, so several rows may      *)
(* share (student, course, date); it is kept as the statuses of the rows   *)
(* of each key, in the order the rows were inserted.                       *)
(*                                                                         *)
(* A view opens no transaction and takes no lock: every query it makes is  *)
(* a step of its own, and requests served at the same time interleave      *)
(* between any two of them.  Queries that read only rows no action of a    *)
(* specification writes are taken together with the step next to them.     *)
(***************************************************************************)
EXTENDS Integers, Sequences, FiniteSets, TLC

VARIABLES
    attendance,   \* Attendance table: [key -> statuses of the key's rows]
    enrolled,     \* Course.students: [Courses -> SUBSET Students]
    teacherOf,    \* Teacher rows: [Users -> Teachers \cup {None}]
    studentOf,    \* Student rows: [Users -> Students \cup {None}]
    scan,         \* order in which the store returns Student rows
    today,        \* date.today() of the server clock
    cap,          \* bound of this run on the number of Attendance rows
    last,         \* the request that arrived last
    calc,         \* counts handed to the percentage computation, and its result
    conc          \* the requests being served, and who wrote each key last

vars == <<attendance, enrolled, teacherOf, studentOf, scan, today, cap, last, calc, conc>>

\* What no request changes: the clock, the row order, the run's bound.
fixed == <<scan, today, cap>>

----------------------------------------------------------------------------
(* Entities of the store used in the checked scenarios.                    *)

None == "None"

Users == {"u1", "u2", "u3", "u4"}

Teachers == {"T1", "T2"}

Students == {"S1", "S2"}

Courses == {"C1", "C2"}

\* Course.teacher
CourseTeacher == [c \in Courses |-> IF c = "C1" THEN "T1" ELSE "T2"]

\* Cap on the number of Attendance rows where requests write (the table itself
\* is unbounded).
MaxRows == 2

\* Cap on the number of Attendance rows where the dashboards read.
MaxReadRows == 3

----------------------------------------------------------------------------
(* Dates and their text form.  A text is a sequence of one-character       *)
(* strings; Python orders str values by code point.                        *)

Digits == {"0", "1", "2", "3", "4", "5", "6", "7", "8", "9"}

\* The characters of the texts: the digits, the dash, the W of a week date,
\* the line feed, and x, a character that has no part in a date.
Chars == Digits \cup {"-", "W", "\n", "x"}

DigitChar(n) ==
    CASE n = 0 -> "0" [] n = 1 -> "1" [] n = 2 -> "2" [] n = 3 -> "3"
      [] n = 4 -> "4" [] n = 5 -> "5" [] n = 6 -> "6" [] n = 7 -> "7"
      [] n = 8 -> "8" [] n = 9 -> "9"

DigitVal(ch) ==
    CASE ch = "0" -> 0 [] ch = "1" -> 1 [] ch = "2" -> 2 [] ch = "3" -> 3
      [] ch = "4" -> 4 [] ch = "5" -> 5 [] ch = "6" -> 6 [] ch = "7" -> 7
      [] ch = "8" -> 8 [] ch = "9" -> 9

\* ord(ch): line feed is U+000A, "-" U+002D, the digits U+0030 .. U+0039,
\* "W" U+0057, "x" U+0078
Ord(ch) ==
    CASE ch = "\n" -> 10 [] ch = "-" -> 45 [] ch = "W" -> 87 [] ch = "x" -> 120
      [] OTHER -> 48 + DigitVal(ch)

Date(y, m, d) == [year |-> y, month |-> m, day |-> d]

\* No date: what a text that is not a date parses to.
NoDate == [year |-> 0, month |-> 0, day |-> 0]

DateLess(a, b) ==
    \/ a.year < b.year
    \/ a.year = b.year /\ a.month < b.month
    \/ a.year = b.year /\ a.month = b.month /\ a.day < b.day

RECURSIVE Pad(_, _)
\* n in decimal, zero-padded to w characters
Pad(n, w) == IF w = 0 THEN <<>> ELSE Pad(n \div 10, w - 1) \o <<DigitChar(n % 10)>>

\* str(d) of a datetime.date: YYYY-MM-DD
IsoFormat(d) == Pad(d.year, 4) \o <<"-">> \o Pad(d.month, 2) \o <<"-">> \o Pad(d.day, 2)

RECURSIVE StrGreaterFrom(_, _, _)
StrGreaterFrom(a, b, i) ==
    IF i > Len(a) THEN FALSE
    ELSE IF i > Len(b) THEN TRUE
    ELSE IF Ord(a[i]) # Ord(b[i]) THEN Ord(a[i]) > Ord(b[i])
    ELSE StrGreaterFrom(a, b, i + 1)

\* a > b on Python str values: lexicographic by code point
StrGreater(a, b) == StrGreaterFrom(a, b, 1)

RECURSIVE ToInt(_)
ToInt(s) == IF s = <<>> THEN 0 ELSE 10 * ToInt(SubSeq(s, 1, Len(s) - 1)) + DigitVal(s[Len(s)])

IsLeap(y) == (y % 4 = 0 /\ y % 100 # 0) \/ y % 400 = 0

DaysInMonth(y, m) ==
    IF m = 2 THEN (IF IsLeap(y) THEN 29 ELSE 28)
    ELSE IF m \in {4, 6, 9, 11} THEN 30 ELSE 31

\* datetime.date(y, m, d), NoDate for the ValueError of a date out of range
Valid(y, m, d) ==
    IF y \in 1..9999 /\ m \in 1..12 /\ d \in 1..DaysInMonth(y, m) THEN Date(y, m, d)
    ELSE NoDate

\* The characters i..j of s are there and are digits.
DigitsAt(s, i, j) == j <= Len(s) /\ \A k \in i..j : s[k] \in Digits

\* The weekday of 1 January of year y, Monday being 0
WeekdayOfJan1(y) ==
    ((y - 1) * 365 + (y - 1) \div 4 - (y - 1) \div 100 + (y - 1) \div 400 + 7) % 7

DaysInYear(y) == IF IsLeap(y) THEN 366 ELSE 365

RECURSIVE FromDayOfYear(_, _, _)
\* The date of day n, counted from the first of month m, of year y
FromDayOfYear(y, m, n) ==
    IF y \notin 1..9999 THEN NoDate
    ELSE IF n > DaysInMonth(y, m) THEN FromDayOfYear(y, m + 1, n - DaysInMonth(y, m))
    ELSE Date(y, m, n)

\* The date of day d of ISO week w of year y: week 1 is the week of 4
\* January, week 53 exists in years that start on a Thursday and in leap years
\* that start on a Wednesday
IsoToYmd(y, w, d) ==
    LET wd == WeekdayOfJan1(y)
        n == 1 - wd + (IF wd > 3 THEN 7 ELSE 0) + (w - 1) * 7 + d - 1
    IN  IF y < 1 \/ w \notin 1..53 \/ d \notin 1..7 THEN NoDate
        ELSE IF w = 53 /\ ~(wd = 3 \/ (wd = 2 /\ IsLeap(y))) THEN NoDate
        ELSE IF n < 1
        THEN (IF y = 1 THEN NoDate ELSE FromDayOfYear(y - 1, 1, n + DaysInYear(y - 1)))
        ELSE IF n > DaysInYear(y) THEN FromDayOfYear(y + 1, 1, n - DaysInYear(y))
        ELSE FromDayOfYear(y, 1, n)

\* date.fromisoformat (Python 3.11): a text of 7, 8 or 10 characters that
\* starts with YYYY-MM-DD, YYYYMMDD, YYYY-Www[-D] or YYYYWww[D]; what follows
\* these within the length is not looked at.  NoDate for a ValueError.
FromIsoFormat(s) ==
    IF Len(s) \notin {7, 8, 10} \/ ~DigitsAt(s, 1, 4) THEN NoDate
    ELSE LET y == ToInt(SubSeq(s, 1, 4))
             sep == s[5] = "-"
             i == IF sep THEN 6 ELSE 5
         IN  IF s[i] = "W"
             THEN IF ~DigitsAt(s, i + 1, i + 2) THEN NoDate
                  ELSE LET w == ToInt(SubSeq(s, i + 1, i + 2))
                           j == IF sep THEN i + 4 ELSE i + 3
                       IN  IF Len(s) = i + 2 THEN IsoToYmd(y, w, 1)
                           ELSE IF sep /\ s[i + 3] # "-" THEN NoDate
                           ELSE IF ~DigitsAt(s, j, j) THEN NoDate
                           ELSE IsoToYmd(y, w, DigitVal(s[j]))
             ELSE IF ~DigitsAt(s, i, i + 1) THEN NoDate
             ELSE LET j == IF sep THEN i + 3 ELSE i + 2
                  IN  IF sep /\ (Len(s) < i + 2 \/ s[i + 2] # "-") THEN NoDate
                      ELSE IF ~DigitsAt(s, j, j + 1) THEN NoDate
                      ELSE Valid(y, ToInt(SubSeq(s, i, i + 1)), ToInt(SubSeq(s, j, j + 1)))

\* date_re.match of django.utils.dateparse, YYYY-M[M]-D[D] with a line feed
\* allowed at the end, and datetime.date of the three numbers
DateRe(s) ==
    LET t == IF s # <<>> /\ s[Len(s)] = "\n" THEN SubSeq(s, 1, Len(s) - 1) ELSE s
        dashes == {i \in 1..Len(t) : t[i] = "-"}
    IN  IF Cardinality(dashes) # 2 THEN NoDate
        ELSE LET p == CHOOSE i \in dashes : \A j \in dashes : i <= j
                 q == CHOOSE i \in dashes : \A j \in dashes : j <= i
             IN  IF p # 5 \/ q - p \notin {2, 3} \/ Len(t) - q \notin {1, 2} THEN NoDate
                 ELSE IF ~(DigitsAt(t, 1, 4) /\ DigitsAt(t, p + 1, q - 1)
                           /\ DigitsAt(t, q + 1, Len(t)))
                 THEN NoDate
                 ELSE Valid(ToInt(SubSeq(t, 1, 4)), ToInt(SubSeq(t, p + 1, q - 1)),
                            ToInt(SubSeq(t, q + 1, Len(t))))

\* The date a DateField makes of a text (parse_date of Django 4 and later):
\* date.fromisoformat first, then the pattern; NoDate for a ValidationError.
ParseDate(s) ==
    LET d == FromIsoFormat(s)
    IN  IF d # NoDate THEN d ELSE DateRe(s)

----------------------------------------------------------------------------
(* The Attendance table.                                                   *)

Key(s, c, d) == [student |-> s, course |-> c, date |-> d]

EmptyTable == [k \in {} |-> <<>>]

\* The statuses of the rows of key k, oldest first
RowsOf(att, k) == IF k \in DOMAIN att THEN att[k] ELSE <<>>

\* Attendance.objects.filter(student=s, course=c, date=d).count()
KeyCount(att, s, c, d) == Len(RowsOf(att, Key(s, c, d)))

\* Attendance.objects.filter(student=s, course=c, date=d, status=st).count()
Copies(att, s, c, d, st) ==
    Cardinality({i \in 1..KeyCount(att, s, c, d) : RowsOf(att, Key(s, c, d))[i] = st})

RECURSIVE Count(_, _, _)
\* qs.count() of the rows whose key is in keys and whose status is in statuses
Count(att, keys, statuses) ==
    IF keys = {} THEN 0
    ELSE LET k == CHOOSE x \in keys : TRUE
         IN  Cardinality({i \in 1..Len(RowsOf(att, k)) : RowsOf(att, k)[i] \in statuses})
             + Count(att, keys \ {k}, statuses)

\* Attendance.objects.count()
Size(att) == Count(att, DOMAIN att, BOOLEAN)

\* INSERT of a row: Attendance(student=s, course=c, date=d, status=st).save()
Insert(att, s, c, d, st) ==
    [k \in DOMAIN att \cup {Key(s, c, d)} |->
        IF k = Key(s, c, d) THEN Append(RowsOf(att, k), st) ELSE att[k]]

\* UPDATE of the row get() returned: the only row of its key when it was
\* looked up, so the oldest row of the key from then on (no row is deleted)
Update(att, s, c, d, st) == [att EXCEPT ![Key(s, c, d)][1] = st]

\* The lookup that never finds a row.
Found_none(att, s, c, d) == "none"

\* What the get() of update_or_create finds for the key
Found(att, s, c, d) ==
    IF d = NoDate THEN "ValidationError"
    ELSE IF KeyCount(att, s, c, d) = 0 THEN "none"
    ELSE IF KeyCount(att, s, c, d) = 1 THEN "one"
    ELSE "MultipleObjectsReturned"

\* Student.objects.all() in place of the course's students.
StudentsOf_all(c) == scan

\* selected_course.students.all(), in the order the store returns the rows
StudentsOf(c) == SelectSeq(scan, LAMBDA s : s \in enrolled[c])

----------------------------------------------------------------------------
(* Requests.  conc.procs[p] is the request the worker p is serving: its     *)
(* inputs, the statement it has reached (pc) and its local variables; when  *)
(* pc = "done" it holds the response, until the next request arrives.       *)

Idle == [op |-> "none", pc |-> "idle"]

\* Worker p is free to take a request.
Free(p) == conc.procs[p].pc \in {"idle", "done"}

\* Texts a client may send as the POST's date: 4 October without the zero,
\* 30 October (today in the checked runs) with and without dashes, 31 October,
\* and 30 February, which is no date.
DateInputs ==
    { <<"2", "0", "2", "6", "-", "1", "0", "-", "4">>,
      <<"2", "0", "2", "6", "1", "0", "3", "0">>,
      IsoFormat(Date(2026, 10, 30)),
      IsoFormat(Date(2026, 10, 31)),
      <<"2", "0", "2", "6", "-", "0", "2", "-", "3", "0">> }

FutureError == "Future attendance not allowed"

PermissionError == "You don't have permission to mark attendance for this course."

\* The future-date test of bulk_attendance
IsFuture(date_s) == StrGreater(date_s, IsoFormat(today))

\* The teacher test left out.
Forbidden_never(u, c) == FALSE

\* The teacher test of bulk_attendance
Forbidden(u, c) == teacherOf[u] # None /\ CourseTeacher[c] # teacherOf[u]

\* The local state of a POST to bulk_attendance.  has_date and date are
\* request.POST.get('date') (None when has_date is false), on the students
\* with status_<id> = "on"; students is what is left of the loop, roster the
\* students the query returned, found what the last lookup found; again says
\* that the POST before it, with no other request in between, carried the
\* same course, date and statuses past the checks; selected is the
\* selected_course of the context the response is rendered with (None when
\* it is rendered with none or with no course), and roster is then the
\* students that context lists.
Post(pc, u, has_date, date_s, course_id, on, again, result, error) ==
    [op |-> "bulk_attendance", method |-> "POST", selected |-> None,
     pc |-> pc, user |-> u, has_date |-> has_date,
     date |-> date_s, course |-> course_id, on |-> on, again |-> again,
     passed |-> pc = "query", students |-> <<>>, roster |-> {}, found |-> None,
     result |-> result, error |-> error]

\* The response that ends a POST.
Answer(me, result, error) ==
    [me EXCEPT !.pc = "done", !.result = result, !.error = error,
               !.students = <<>>, !.found = None]

\* The course that ?course= of the URL preselects, for a GET and a POST alike:
\* None when the parameter is missing, names no course, or names a course of
\* another teacher than the one asking
Preselect(u, course_q) ==
    IF course_q \in Courses /\ ~Forbidden(u, course_q) THEN course_q ELSE None

\* The context's selected_course and students, read when the page is rendered.
Context(me, selected) ==
    [me EXCEPT !.selected = selected,
               !.roster = IF selected = None THEN {} ELSE enrolled[selected]]

\* bulk_attendance, POST, up to the loop: the Teacher lookup, the preselection
\* by ?course=, the date test (a str against None raises), Course.objects.get
\* and the teacher test.  Only the future-date page shows the preselection.
\* The Teacher and Course rows and the clock are written by no request that
\* is served along with POSTs.
bulk_attendance(p, u, course_q, has_date, date_s, course_id, on) ==
    LET me == conc.procs[p]
        again == /\ me.op = "bulk_attendance" /\ me.pc = "done" /\ me.passed
                 /\ last.op = "bulk_attendance"
                 /\ me.has_date = has_date /\ me.date = date_s
                 /\ me.course = course_id /\ me.on = on
    IN  /\ Free(p)
        /\ conc' = [conc EXCEPT !.procs[p] =
               IF ~has_date
               THEN Post("done", u, has_date, date_s, course_id, {}, FALSE,
                         "error500", "TypeError")
               ELSE IF IsFuture(date_s)
               THEN Context(Post("done", u, has_date, date_s, course_id, {}, FALSE,
                                 "render", FutureError),
                            Preselect(u, course_q))
               ELSE IF course_id \notin Courses
               THEN Post("done", u, has_date, date_s, course_id, {}, FALSE,
                         "error500", "DoesNotExist")
               ELSE IF Forbidden(u, course_id)
               THEN Post("done", u, has_date, date_s, course_id, {}, FALSE,
                         "render", PermissionError)
               ELSE Post("query", u, has_date, date_s, course_id, on, again, None, None)]
        /\ last' = [op |-> "bulk_attendance"]
        /\ UNCHANGED <<attendance, enrolled, teacherOf, studentOf, fixed, calc>>

\* bulk_attendance, GET: the form, with the course of ?course= preselected
\* and its students listed
bulk_attendance_get(p, u, course_q) ==
    /\ Free(p)
    /\ conc' = [conc EXCEPT !.procs[p] =
           Context([Post("done", u, FALSE, <<>>, None, {}, FALSE, "render", None)
                        EXCEPT !.method = "GET"],
                   Preselect(u, course_q))]
    /\ last' = [op |-> "bulk_attendance"]
    /\ UNCHANGED <<attendance, enrolled, teacherOf, studentOf, fixed, calc>>

\* for student in students: the query of selected_course.students.all()
StudentsQuery(p) ==
    LET me == conc.procs[p]
    IN  /\ me.op = "bulk_attendance" /\ me.pc = "query"
        /\ conc' = [conc EXCEPT !.procs[p] =
               [me EXCEPT !.pc = "lookup", !.students = StudentsOf(me.course),
                          !.roster = enrolled[me.course]]]
        /\ UNCHANGED <<attendance, enrolled, teacherOf, studentOf, fixed, last, calc>>

\* update_or_create, first half: get() of the row of the next student
Lookup(p) ==
    LET me == conc.procs[p]
        f == Found(attendance, Head(me.students), me.course, ParseDate(me.date))
    IN  /\ me.op = "bulk_attendance" /\ me.pc = "lookup"
        /\ me.students # <<>>
        /\ conc' = [conc EXCEPT !.procs[p] =
               IF f \in {"none", "one"} THEN [me EXCEPT !.pc = "write", !.found = f]
               ELSE Answer(me, "error500", f)]
        /\ UNCHANGED <<attendance, enrolled, teacherOf, studentOf, fixed, last, calc>>

\* update_or_create, second half: create the row when get() found none, else
\* set the status of the row it found; status is status_<id> == "on"
Write(p) ==
    LET me == conc.procs[p]
        s == Head(me.students)
        d == ParseDate(me.date)
    IN  /\ me.op = "bulk_attendance" /\ me.pc = "write"
        /\ IF me.found = "none"
           THEN /\ Size(attendance) < cap
                /\ attendance' = Insert(attendance, s, me.course, d, s \in me.on)
           ELSE attendance' = Update(attendance, s, me.course, d, s \in me.on)
        /\ conc' = [conc EXCEPT !.procs[p] =
                       [me EXCEPT !.pc = "lookup", !.students = Tail(me.students),
                                  !.found = None],
                                !.writer[s] = p]
        /\ UNCHANGED <<enrolled, teacherOf, studentOf, fixed, last, calc>>

\* return redirect('bulk_attendance'), the loop being over
Redirect(p) ==
    LET me == conc.procs[p]
    IN  /\ me.op = "bulk_attendance" /\ me.pc = "lookup"
        /\ me.students = <<>>
        /\ conc' = [conc EXCEPT !.procs[p] = Answer(me, "redirect", None)]
        /\ UNCHANGED <<attendance, enrolled, teacherOf, studentOf, fixed, last, calc>>

\* AttendanceForm(request.POST).save(): the form's fields make a new row
AttendanceFormSave(att, s, c, d, st) == Insert(att, s, c, d, st)

MarkDates == {Date(2026, 10, 4), Date(2026, 10, 30)}

\* mark_attendance: a valid bound form is saved, anything else only rendered
mark_attendance(valid, s, c, d, st) ==
    /\ UNCHANGED <<enrolled, teacherOf, studentOf, fixed, calc, conc>>
    /\ IF valid
       THEN /\ Size(attendance) < cap
            /\ attendance' = AttendanceFormSave(attendance, s, c, d, st)
            /\ last' = [op |-> "mark_attendance"]
       ELSE /\ UNCHANGED attendance
            /\ last' = [op |-> "mark_attendance"]

----------------------------------------------------------------------------
(* The read path: dashboard, teacher_dashboard, student_dashboard.         *)

\* The page the two lookups of dashboard lead to when both read one state of
\* the store: the Teacher row first.
Resolve(u) ==
    IF teacherOf[u] # None THEN "teacher_dashboard"
    ELSE IF studentOf[u] # None THEN "student_dashboard" ELSE "core/dashboard.html"

\* The Student row in place of the Teacher row.
TeacherGet_student(u) == studentOf[u]

\* Teacher.objects.get(user=request.user); None for Teacher.DoesNotExist
TeacherGet(u) == teacherOf[u]

\* Student.objects.get(user=request.user); None for Student.DoesNotExist
StudentGet(u) == studentOf[u]

NoCounts ==
    [total_students |-> 0, total_teachers |-> 0, total_courses |-> 0, today_attendance |-> 0]

\* The local state of a dashboard request; seen holds, for every step the
\* request has taken, the page the rows stored at that step lead to.
Visit(pc, u, result, target, context, seen) ==
    [op |-> "dashboard", pc |-> pc, user |-> u, result |-> result, target |-> target,
     context |-> context, seen |-> seen]

\* dashboard, up to the Teacher lookup: redirect when the user has a Teacher row
dashboard(p, u) ==
    /\ Free(p)
    /\ conc' = [conc EXCEPT !.procs[p] =
           IF TeacherGet(u) # None
           THEN Visit("done", u, "redirect", "teacher_dashboard", NoCounts, {Resolve(u)})
           ELSE Visit("student", u, None, None, NoCounts, {Resolve(u)})]
    /\ last' = [op |-> "dashboard"]
    /\ UNCHANGED <<attendance, enrolled, teacherOf, studentOf, fixed, calc>>

\* dashboard, the Student lookup: redirect when the user has a Student row
StudentLookup(p) ==
    LET me == conc.procs[p]
        seen == me.seen \cup {Resolve(me.user)}
    IN  /\ me.op = "dashboard" /\ me.pc = "student"
        /\ conc' = [conc EXCEPT !.procs[p] =
               IF StudentGet(me.user) # None
               THEN Visit("done", me.user, "redirect", "student_dashboard", NoCounts, seen)
               ELSE Visit("counts", me.user, None, None, NoCounts, seen)]
        /\ UNCHANGED <<attendance, enrolled, teacherOf, studentOf, fixed, last, calc>>

\* dashboard, the general page: the counts of all Student, Teacher and Course
\* rows (no request adds or removes one) and of today's Attendance rows
GeneralCounts(p) ==
    LET me == conc.procs[p]
    IN  /\ me.op = "dashboard" /\ me.pc = "counts"
        /\ conc' = [conc EXCEPT !.procs[p] =
               Visit("done", me.user, "render", "core/dashboard.html",
                     [total_students |-> Cardinality(Students),
                      total_teachers |-> Cardinality(Teachers),
                      total_courses |-> Cardinality(Courses),
                      today_attendance |->
                          Count(attendance, {k \in DOMAIN attendance : k.date = today}, BOOLEAN)],
                     me.seen \cup {Resolve(me.user)})]
        /\ UNCHANGED <<attendance, enrolled, teacherOf, studentOf, fixed, last, calc>>

\* The order in which the store returns Course rows.
CourseOrder == <<"C1", "C2">>

\* The keys of the rows of course c
CourseKeys(att, c) == {k \in DOMAIN att : k.course = c}

\* The number of rows of the course in place of the number of its dates.
TotalClasses_rows(att, c) == Count(att, CourseKeys(att, c), BOOLEAN)

\* Attendance.objects.filter(course=c).values('date').distinct().count()
TotalClasses(att, c) == Cardinality({k.date : k \in CourseKeys(att, c)})

NoStats ==
    [total_classes |-> 0, total_attendance_records |-> 0, present_count |-> 0,
     absent_count |-> 0, enrolled_students |-> 0]

\* f with the value v at x
With(f, x, v) == [y \in DOMAIN f \cup {x} |-> IF y = x THEN v ELSE f[y]]

\* teacher_dashboard, up to the loop: Http404 without a Teacher row, else the
\* courses of the teacher
teacher_dashboard(p, u) ==
    LET courses == SelectSeq(CourseOrder, LAMBDA c : CourseTeacher[c] = teacherOf[u])
        me == [op |-> "teacher_dashboard", pc |-> "done", user |-> u, result |-> "render",
               todo |-> courses, cur |-> NoStats, course_data |-> <<>>,
               total_courses |-> Len(courses)]
    IN  /\ Free(p)
        /\ conc' = [conc EXCEPT !.procs[p] =
               IF teacherOf[u] = None
               THEN [me EXCEPT !.result = "Http404", !.total_courses = 0]
               ELSE IF courses = <<>> THEN me
               ELSE [me EXCEPT !.pc = "classes", !.result = None]]
        /\ last' = [op |-> "teacher_dashboard"]
        /\ UNCHANGED <<attendance, enrolled, teacherOf, studentOf, fixed, calc>>

\* total_classes of the course the loop is at
TotalClassesQuery(p) ==
    LET me == conc.procs[p]
    IN  /\ me.op = "teacher_dashboard" /\ me.pc = "classes"
        /\ conc' = [conc EXCEPT !.procs[p] =
               [me EXCEPT !.pc = "records",
                          !.cur.total_classes = TotalClasses(attendance, Head(me.todo))]]
        /\ UNCHANGED <<attendance, enrolled, teacherOf, studentOf, fixed, last, calc>>

\* total_attendance_records of the course the loop is at
TotalRecordsQuery(p) ==
    LET me == conc.procs[p]
    IN  /\ me.op = "teacher_dashboard" /\ me.pc = "records"
        /\ conc' = [conc EXCEPT !.procs[p] =
               [me EXCEPT !.pc = "present",
                          !.cur.total_attendance_records =
                              Count(attendance, CourseKeys(attendance, Head(me.todo)), BOOLEAN)]]
        /\ UNCHANGED <<attendance, enrolled, teacherOf, studentOf, fixed, last, calc>>

\* present_count of the course the loop is at
PresentCountQuery(p) ==
    LET me == conc.procs[p]
    IN  /\ me.op = "teacher_dashboard" /\ me.pc = "present"
        /\ conc' = [conc EXCEPT !.procs[p] =
               [me EXCEPT !.pc = "absent",
                          !.cur.present_count =
                              Count(attendance, CourseKeys(attendance, Head(me.todo)), {TRUE})]]
        /\ UNCHANGED <<attendance, enrolled, teacherOf, studentOf, fixed, last, calc>>

\* absent_count and enrolled_students of the course the loop is at, and
\* course_data.append; the page is rendered after the last course
AbsentCountQuery(p) ==
    LET me == conc.procs[p]
        c == Head(me.todo)
        stats == [me.cur EXCEPT !.absent_count =
                                    Count(attendance, CourseKeys(attendance, c), {FALSE}),
                                !.enrolled_students = Cardinality(enrolled[c])]
    IN  /\ me.op = "teacher_dashboard" /\ me.pc = "absent"
        /\ conc' = [conc EXCEPT !.procs[p] =
               [me EXCEPT !.todo = Tail(me.todo), !.cur = NoStats,
                          !.course_data = With(me.course_data, c, stats),
                          !.pc = IF Tail(me.todo) = <<>> THEN "done" ELSE "classes",
                          !.result = IF Tail(me.todo) = <<>> THEN "render" ELSE None]]
        /\ UNCHANGED <<attendance, enrolled, teacherOf, studentOf, fixed, last, calc>>

RECURSIVE SumOf(_, _, _)
\* The sum of field f of counts over the courses in keys
SumOf(counts, keys, f) ==
    IF keys = {} THEN 0
    ELSE LET k == CHOOSE x \in keys : TRUE
         IN  counts[k][f] + SumOf(counts, keys \ {k}, f)

\* round(n / d, 0) on exact values, ties to even, for d > 0: what Python's
\* round makes of a float that carries the quotient exactly
RoundDiv(n, d) ==
    LET q == n \div d
        r == n % d
    IN  IF 2 * r > d \/ (2 * r = d /\ q % 2 = 1) THEN q + 1 ELSE q

\* round((present / total) * 100, 1) if total > 0, else 0; in tenths of a
\* percent (818 is 81.8).  Exact for counts below 30, where the float product
\* carries the quotient exactly enough for round.
Percentage(present, total) ==
    IF total > 0 THEN RoundDiv(1000 * present, total) ELSE 0

\* The mean of the per-course percentages in place of the ratio of the sums.
OverallPercentage_mean(counts) ==
    IF DOMAIN counts = {} THEN 0
    ELSE RoundDiv(SumOf([k \in DOMAIN counts |->
                            [p |-> Percentage(counts[k].present, counts[k].total)]],
                        DOMAIN counts, "p"),
                  Cardinality(DOMAIN counts))

\* overall_percentage of student_dashboard, from the aggregated totals
OverallPercentage(counts) ==
    Percentage(SumOf(counts, DOMAIN counts, "present"),
               SumOf(counts, DOMAIN counts, "total"))

\* The context student_dashboard computes from the per-course counts
\* (present, absent, total) of the student's courses.
Summary(counts) ==
    [course_data |->
        [k \in DOMAIN counts |->
            [present_count |-> counts[k].present,
             absent_count |-> counts[k].absent,
             total_records |-> counts[k].total,
             attendance_percentage |-> Percentage(counts[k].present, counts[k].total)]],
     total_courses |-> Cardinality(DOMAIN counts),
     total_present |-> SumOf(counts, DOMAIN counts, "present"),
     total_absent |-> SumOf(counts, DOMAIN counts, "absent"),
     total_classes |-> SumOf(counts, DOMAIN counts, "total"),
     overall_percentage |-> OverallPercentage(counts)]

\* The keys of the rows of student s in course c
StudentKeys(att, s, c) == {k \in DOMAIN att : k.student = s /\ k.course = c}

NoTally == [present |-> 0, absent |-> 0, total |-> 0]

\* The context of a student without courses
NoContext == Summary(<<>>)

\* student_dashboard, up to the loop: Http404 without a Student row, else the
\* courses the student is enrolled in (recent_attendance, a display list, is
\* left out)
student_dashboard(p, u) ==
    LET courses == SelectSeq(CourseOrder, LAMBDA c : studentOf[u] \in enrolled[c])
        me == [op |-> "student_dashboard", pc |-> "done", user |-> u, result |-> "render",
               todo |-> courses, cur |-> NoTally, counts |-> <<>>,
               context |-> NoContext]
    IN  /\ Free(p)
        /\ conc' = [conc EXCEPT !.procs[p] =
               IF studentOf[u] = None
               THEN [me EXCEPT !.result = "Http404"]
               ELSE IF courses = <<>> THEN me
               ELSE [me EXCEPT !.pc = "present", !.result = None]]
        /\ last' = [op |-> "student_dashboard"]
        /\ UNCHANGED <<attendance, enrolled, teacherOf, studentOf, fixed, calc>>

\* present_count of the course the loop is at
StudentPresentQuery(p) ==
    LET me == conc.procs[p]
    IN  /\ me.op = "student_dashboard" /\ me.pc = "present"
        /\ conc' = [conc EXCEPT !.procs[p] =
               [me EXCEPT !.pc = "absent",
                          !.cur.present =
                              Count(attendance,
                                    StudentKeys(attendance, studentOf[me.user], Head(me.todo)),
                                    {TRUE})]]
        /\ UNCHANGED <<attendance, enrolled, teacherOf, studentOf, fixed, last, calc>>

\* absent_count of the course the loop is at
StudentAbsentQuery(p) ==
    LET me == conc.procs[p]
    IN  /\ me.op = "student_dashboard" /\ me.pc = "absent"
        /\ conc' = [conc EXCEPT !.procs[p] =
               [me EXCEPT !.pc = "total",
                          !.cur.absent =
                              Count(attendance,
                                    StudentKeys(attendance, studentOf[me.user], Head(me.todo)),
                                    {FALSE})]]
        /\ UNCHANGED <<attendance, enrolled, teacherOf, studentOf, fixed, last, calc>>

\* total_records of the course the loop is at, and course_data.append; after
\* the last course the percentages and totals are computed and the page is
\* rendered
StudentTotalQuery(p) ==
    LET me == conc.procs[p]
        c == Head(me.todo)
        tally == [me.cur EXCEPT !.total =
                      Count(attendance, StudentKeys(attendance, studentOf[me.user], c), BOOLEAN)]
        counts == With(me.counts, c, tally)
    IN  /\ me.op = "student_dashboard" /\ me.pc = "total"
        /\ conc' = [conc EXCEPT !.procs[p] =
               [me EXCEPT !.todo = Tail(me.todo), !.cur = NoTally, !.counts = counts,
                          !.pc = IF Tail(me.todo) = <<>> THEN "done" ELSE "present",
                          !.result = IF Tail(me.todo) = <<>> THEN "render" ELSE None,
                          !.context = IF Tail(me.todo) = <<>> THEN Summary(counts)
                                      ELSE NoContext]]
        /\ UNCHANGED <<attendance, enrolled, teacherOf, studentOf, fixed, last, calc>>

\* The percentage computation of student_dashboard applied to given counts.
student_summary ==
    /\ ~calc.done
    /\ calc' = [calc EXCEPT !.done = TRUE, !.out = Summary(calc.in)]
    /\ UNCHANGED <<attendance, enrolled, teacherOf, studentOf, fixed, last, conc>>

----------------------------------------------------------------------------
(* Changes made outside the views (the admin site).                        *)

\* The Teacher row t is given to user u, who has none.
LinkTeacher(t, u) ==
    /\ teacherOf[u] = None
    /\ teacherOf' = [x \in Users |-> IF x = u THEN t
                                     ELSE IF teacherOf[x] = t THEN None
                                     ELSE teacherOf[x]]
    /\ last' = [op |-> "admin"]
    /\ UNCHANGED <<attendance, enrolled, studentOf, fixed, calc, conc>>

\* The Student row s is given to user u, who has none.
LinkStudent(s, u) ==
    /\ studentOf[u] = None
    /\ studentOf' = [x \in Users |-> IF x = u THEN s
                                     ELSE IF studentOf[x] = s THEN None
                                     ELSE studentOf[x]]
    /\ last' = [op |-> "admin"]
    /\ UNCHANGED <<attendance, enrolled, teacherOf, fixed, calc, conc>>

\* A student is added to a course (the admin site edits Course.students).
Enroll(s, c) ==
    /\ s \notin enrolled[c]
    /\ enrolled' = [enrolled EXCEPT ![c] = @ \cup {s}]
    /\ last' = [op |-> "admin"]
    /\ UNCHANGED <<attendance, teacherOf, studentOf, fixed, calc, conc>>

\* A student is removed from a course; the Attendance rows are not touched.
Unenroll(s, c) ==
    /\ s \in enrolled[c]
    /\ enrolled' = [enrolled EXCEPT ![c] = @ \ {s}]
    /\ last' = [op |-> "admin"]
    /\ UNCHANGED <<attendance, teacherOf, studentOf, fixed, calc, conc>>

----------------------------------------------------------------------------
(* Specifications.                                                         *)

\* Users that send bulk_attendance requests: the teacher of C1 (not of C2) and
\* a user with no Teacher row.
Requesters == {"u1", "u4"}

\* Course ids a POST may carry: the courses, and an id of no course.
CourseInputs == Courses \cup {None}

\* The sets of checked boxes a POST may carry.
OnInputs == {{}, Students}

\* The rows the attendance form saves while bulk_attendance is exercised: of
\* course C1, for 30 October (today in the checked runs) and one for 4 October.
SaveInputs ==
    (Students \X {"C1"} \X {Date(2026, 10, 30)} \X BOOLEAN)
        \cup {<<"S1", "C1", Date(2026, 10, 4), TRUE>>}

\* The (student, course) pairs whose enrolment changes.
EnrollInputs == {<<"S2", "C1">>}

Orders == {<<"S1", "S2">>, <<"S2", "S1">>}

NoCalc == [in |-> <<>>, done |-> FALSE, out |-> <<>>]

\* One worker serves the requests, one after the other.
OneWorker == [procs |-> [p \in {"p"} |-> Idle], writer |-> [s \in Students |-> None]]

\* Two workers serve requests at the same time.
TwoWorkers == [procs |-> [p \in {"p", "q"} |-> Idle], writer |-> [s \in Students |-> None]]

Workers == DOMAIN conc.procs

InitStore ==
    /\ attendance = EmptyTable
    /\ enrolled = [c \in Courses |-> IF c = "C1" THEN {"S1", "S2"} ELSE {"S2"}]
    /\ teacherOf = [u \in Users |-> CASE u = "u1" -> "T1" [] u = "u2" -> "T2" [] OTHER -> None]
    /\ studentOf = [u \in Users |-> CASE u = "u2" -> "S2" [] u = "u3" -> "S1" [] OTHER -> None]
    /\ scan \in Orders
    /\ today = Date(2026, 10, 30)
    /\ last = [op |-> "none"]

\* The POSTs to bulk_attendance, as <<?course=, date, course, statuses>>:
\* the form posted to the bare URL with every date, course and statuses; the
\* form posted to a URL with ?course=, for today and tomorrow; and today as a
\* week date and with a line feed after it.
PostInputs ==
    ({None} \X DateInputs \X CourseInputs \X OnInputs)
        \cup (Courses \X {IsoFormat(Date(2026, 10, 30)), IsoFormat(Date(2026, 10, 31))}
                    \X {"C1"} \X {{}})
        \cup ({None} \X {<<"2", "0", "2", "6", "-", "W", "4", "4", "-", "5">>,
                          <<"2", "0", "2", "6", "-", "1", "0", "-", "3", "0", "\n">>}
                    \X {"C1"} \X {{}})

\* The write path: requests to bulk_attendance served one at a time, while the
\* attendance form saves rows and enrolments change between their steps; the
\* store returns the Student rows in the order of their ids.
Init ==
    /\ InitStore
    /\ scan = <<"S1", "S2">>
    /\ cap = MaxRows
    /\ calc = NoCalc
    /\ conc = OneWorker

Next ==
    \/ \E p \in Workers, u \in Requesters, f \in PostInputs :
           bulk_attendance(p, u, f[1], TRUE, f[2], f[3], f[4])
    \/ \E p \in Workers, u \in Requesters, c \in CourseInputs :
           bulk_attendance(p, u, None, FALSE, <<>>, c, {})
    \/ \E p \in Workers, u \in Requesters, c \in CourseInputs :
           bulk_attendance_get(p, u, c)
    \/ \E p \in Workers : StudentsQuery(p)
    \/ \E p \in Workers : Lookup(p)
    \/ \E p \in Workers : Write(p)
    \/ \E p \in Workers : Redirect(p)
    \/ \E f \in SaveInputs : mark_attendance(TRUE, f[1], f[2], f[3], f[4])
    \/ mark_attendance(FALSE, "S1", "C1", today, FALSE)
    \/ \E e \in EnrollInputs : Enroll(e[1], e[2])
    \/ \E e \in EnrollInputs : Unenroll(e[1], e[2])

Spec == Init /\ [][Next]_vars

\* Largest number of attendance rows while the role dispatch is exercised.
MaxRoleRows == 1

\* The role dispatch: dashboard requests while the Teacher and Student rows
\* change hands and rows of today are saved between their steps.
InitRoles ==
    /\ InitStore
    /\ cap = MaxRoleRows
    /\ calc = NoCalc
    /\ conc = OneWorker

NextRoles ==
    \/ \E p \in Workers, u \in Users : dashboard(p, u)
    \/ \E p \in Workers : StudentLookup(p)
    \/ \E p \in Workers : GeneralCounts(p)
    \/ \E t \in Teachers, u \in Users : LinkTeacher(t, u)
    \/ \E s \in Students, u \in Users : LinkStudent(s, u)
    \/ \E s \in Students, st \in BOOLEAN : mark_attendance(TRUE, s, "C1", today, st)

SpecRoles == InitRoles /\ [][NextRoles]_vars

\* The teacher and student dashboards while the attendance form saves rows
\* of a course between their queries.
InitAgg ==
    /\ InitStore
    /\ cap = MaxReadRows
    /\ calc = NoCalc
    /\ conc = OneWorker

NextAgg ==
    \/ \E s \in Students, d \in MarkDates, st \in BOOLEAN :
           mark_attendance(TRUE, s, "C1", d, st)
    \/ \E p \in Workers, u \in Users : teacher_dashboard(p, u)
    \/ \E p \in Workers : TotalClassesQuery(p)
    \/ \E p \in Workers : TotalRecordsQuery(p)
    \/ \E p \in Workers : PresentCountQuery(p)
    \/ \E p \in Workers : AbsentCountQuery(p)
    \/ \E p \in Workers, u \in Users : student_dashboard(p, u)
    \/ \E p \in Workers : StudentPresentQuery(p)
    \/ \E p \in Workers : StudentAbsentQuery(p)
    \/ \E p \in Workers : StudentTotalQuery(p)

SpecAgg == InitAgg /\ [][NextAgg]_vars

\* Largest present and total count of a student in a course handed to the
\* percentage computation.
MaxCount == 10

\* Largest absent count handed to the percentage computation.
MaxAbsent == 1

\* The counts the three queries of a course can return: each is taken at its
\* own time, so the total need not be the sum of the other two.
CountsUpTo(n) ==
    {[present |-> p, absent |-> a, total |-> t] : p \in 0..n, a \in 0..MaxAbsent, t \in 0..n}

InitPct ==
    /\ InitStore
    /\ cap = 0
    /\ conc = OneWorker
    /\ calc \in {[in |-> f, done |-> FALSE, out |-> <<>>] :
                    f \in [Courses -> CountsUpTo(MaxCount)]}

NextPct == student_summary

SpecPct == InitPct /\ [][NextPct]_vars

\* Two workers serve bulk_attendance POSTs for a course and today at the same
\* time, while the attendance form saves rows of that course and date and the
\* enrolment changes.
InitConc ==
    /\ InitStore
    /\ cap = MaxRows
    /\ calc = NoCalc
    /\ conc = TwoWorkers

NextConc ==
    \/ \E p \in Workers, on \in OnInputs :
           bulk_attendance(p, "u1", None, TRUE, IsoFormat(today), "C1", on)
    \/ \E p \in Workers : StudentsQuery(p)
    \/ \E p \in Workers : Lookup(p)
    \/ \E p \in Workers : Write(p)
    \/ \E p \in Workers : Redirect(p)
    \/ \E s \in Students, st \in BOOLEAN : mark_attendance(TRUE, s, "C1", today, st)
    \/ \E e \in EnrollInputs : Enroll(e[1], e[2])
    \/ \E e \in EnrollInputs : Unenroll(e[1], e[2])

SpecConc == InitConc /\ [][NextConc]_vars

----------------------------------------------------------------------------
(* Properties of the write path, checked under Spec.                       *)

\* Worker p takes a step of a POST to bulk_attendance: its first, when the
\* request arrives, or a later one.
PostStep(p) ==
    /\ conc'.procs[p] # conc.procs[p]
    /\ conc'.procs[p].op = "bulk_attendance"
    /\ conc'.procs[p].method = "POST"

\* Worker p answers the POST it is serving.
PostAnswered(p) == PostStep(p) /\ conc'.procs[p].pc = "done"

\* A user with a Teacher row and a course of another teacher.
OtherTeacher(u, c) == c \in Courses /\ teacherOf[u] # None /\ CourseTeacher[c] # teacherOf[u]

\* No request but POSTs to bulk_attendance has arrived since the last of them.
InARow == last.op = "bulk_attendance"

\* C1: in every reachable state the Attendance table holds at most one row per
\* (student, course, date).
C1_OnePerKey ==
    \A k \in DOMAIN attendance : Len(attendance[k]) <= 1

\* C2: when a bulk_attendance POST for a date that passed the future-date and
\* the teacher test is answered, every student that was enrolled in the course when it
\* queried them has exactly one row for (student, course, date), present iff
\* the POST carried status_<id> = "on".
C2_Completeness ==
    [][\A p \in Workers :
          (/\ PostAnswered(p) /\ conc'.procs[p].passed
           /\ ParseDate(conc'.procs[p].date) # NoDate) =>
              LET me == conc'.procs[p]
              IN  \A s \in me.roster :
                      /\ KeyCount(attendance', s, me.course, ParseDate(me.date)) = 1
                      /\ Copies(attendance', s, me.course, ParseDate(me.date), s \in me.on) = 1]_vars

\* C3: a bulk_attendance POST that submits the course, date and statuses of
\* the POST before it, with no other request in between or meanwhile and so
\* the enrolment unchanged, leaves the Attendance table at every step as the
\* first POST left it.
C3_Idempotent ==
    [][\A p \in Workers :
          (PostStep(p) /\ conc'.procs[p].again /\ InARow') => attendance' = attendance]_vars

\* C3 witness: a POST was repeated in a row and both times carried through to
\* the redirect, for a course with students.
C3_Witness ==
    \E p \in Workers :
        /\ conc.procs[p].op = "bulk_attendance" /\ conc.procs[p].pc = "done"
        /\ conc.procs[p].again /\ InARow
        /\ conc.procs[p].result = "redirect"
        /\ conc.procs[p].roster # {}

\* C4: a POST whose date is after today is answered with the future-date error
\* and writes nothing; a POST whose date is today or earlier is not answered
\* with the future-date error.
C4_FutureDate ==
    [][\A p \in Workers :
          (PostStep(p) /\ conc'.procs[p].has_date) =>
              IF DateLess(today, ParseDate(conc'.procs[p].date))
              THEN /\ attendance' = attendance
                   /\ conc'.procs[p].pc = "done" => conc'.procs[p].error = FutureError
              ELSE conc'.procs[p].error # FutureError]_vars

\* C5 as claimed: a POST by a teacher for a course of another teacher is
\* answered with the permission error and writes nothing; a POST by a user
\* without a Teacher row is never answered with the permission error.
C5_Authorization ==
    [][\A p \in Workers :
          PostStep(p) =>
              LET me == conc'.procs[p]
              IN  IF OtherTeacher(me.user, me.course)
                  THEN /\ attendance' = attendance
                       /\ conc'.procs[p].pc = "done" => conc'.procs[p].error = PermissionError
                  ELSE teacherOf[me.user] = None => conc'.procs[p].error # PermissionError]_vars

\* C5 amended: a POST by a teacher for a course of another teacher writes
\* nothing, and is answered with the permission error unless the date test,
\* which comes first, has turned it away: with the future-date error when the
\* date text is greater than today's, with a server error when the POST has no
\* date; a POST by a user without a Teacher row is never answered with the
\* permission error.
C5_AuthorizationAfterDate ==
    [][\A p \in Workers :
          PostStep(p) =>
              LET me == conc'.procs[p]
              IN  IF OtherTeacher(me.user, me.course)
                  THEN /\ attendance' = attendance
                       /\ conc'.procs[p].pc = "done" =>
                            conc'.procs[p].error =
                                IF ~me.has_date THEN "TypeError"
                                ELSE IF StrGreater(me.date, IsoFormat(today)) THEN FutureError
                                ELSE PermissionError
                  ELSE teacherOf[me.user] = None => conc'.procs[p].error # PermissionError]_vars

\* C5 witness: a POST was refused permission while rows are stored.
C5_Witness ==
    \E p \in Workers :
        /\ conc.procs[p].op = "bulk_attendance" /\ conc.procs[p].pc = "done"
        /\ conc.procs[p].error = PermissionError
        /\ attendance # EmptyTable

\* C10: a step of a bulk_attendance POST changes only rows of its course and
\* date whose student was enrolled in the course when the POST queried the
\* students, and no step of any request removes a row.
C10_Frame ==
    [][/\ \A p \in Workers :
              PostStep(p) =>
                  \A k \in DOMAIN attendance \cup DOMAIN attendance' :
                      RowsOf(attendance', k) # RowsOf(attendance, k) =>
                          /\ k.course = conc'.procs[p].course
                          /\ k.date = ParseDate(conc'.procs[p].date)
                          /\ k.student \in conc'.procs[p].roster
       /\ \A k \in DOMAIN attendance :
              Len(RowsOf(attendance', k)) >= Len(attendance[k])]_vars

\* C10 witness: a POST was carried through that named as present a student
\* removed from the course before, whose absent row for that course and date
\* is still there.
C10_Witness ==
    \E p \in Workers :
        /\ conc.procs[p].op = "bulk_attendance" /\ conc.procs[p].pc = "done"
        /\ conc.procs[p].result = "redirect"
        /\ \E s \in conc.procs[p].on \ conc.procs[p].roster :
               Copies(attendance, s, conc.procs[p].course, ParseDate(conc.procs[p].date), FALSE) = 1

----------------------------------------------------------------------------
(* Claims about the read path.                                             *)

\* A step of the request of kind op that worker p is serving.
StepOf(p, op) ==
    /\ conc'.procs[p] # conc.procs[p]
    /\ conc'.procs[p].op = op

\* Worker p answers with this step the request it is serving.
Answers(p) == conc'.procs[p].pc = "done"

\* No other request has arrived since the request worker p is serving.
Undisturbed(p) == last.op = conc.procs[p].op

\* C6 as claimed: a dashboard request changes no table and is answered as the
\* Teacher and Student rows of its user direct, Teacher first, the rows being
\* those stored at one of the steps of the request.
C6_RoleDispatch ==
    [][\A p \in Workers :
          StepOf(p, "dashboard") =>
              /\ UNCHANGED <<attendance, enrolled, teacherOf, studentOf>>
              /\ Answers(p) => conc'.procs[p].target \in conc'.procs[p].seen]_vars

\* C6 amended: a dashboard request changes no table; a user who has a Teacher
\* row when the request looks for it is redirected to the teacher dashboard
\* (with or without a Student row); a user who has none then and has a Student
\* row when the request looks for that is redirected to the student dashboard;
\* a user for whom both lookups find nothing gets the general page.  When the
\* rows of the user direct to the same page at every step of the request, that
\* page is the answer.
C6_RoleDispatchAtLookup ==
    [][\A p \in Workers :
          StepOf(p, "dashboard") =>
              LET was == conc.procs[p]
                  me == conc'.procs[p]
              IN  /\ UNCHANGED <<attendance, enrolled, teacherOf, studentOf>>
                  /\ Free(p) =>
                        IF teacherOf[me.user] # None
                        THEN Answers(p) /\ me.result = "redirect"
                             /\ me.target = "teacher_dashboard"
                        ELSE ~Answers(p)
                  /\ (~Free(p) /\ was.pc = "student") =>
                        IF studentOf[me.user] # None
                        THEN Answers(p) /\ me.result = "redirect"
                             /\ me.target = "student_dashboard"
                        ELSE ~Answers(p)
                  /\ (~Free(p) /\ was.pc = "counts") =>
                        Answers(p) /\ me.result = "render" /\ me.target = "core/dashboard.html"
                  /\ (Answers(p) /\ Cardinality(me.seen) = 1) => me.target \in me.seen]_vars

\* C6 witness: a user who holds a Teacher and a Student row was sent to the
\* teacher dashboard, and a row is stored.
C6_Witness ==
    \E p \in Workers :
        /\ conc.procs[p].op = "dashboard" /\ conc.procs[p].pc = "done"
        /\ teacherOf[conc.procs[p].user] # None /\ studentOf[conc.procs[p].user] # None
        /\ conc.procs[p].target = "teacher_dashboard"
        /\ attendance # EmptyTable

RECURSIVE CopiesSum(_, _, _, _)
\* The number of rows of course c with status st among the rows of the
\* (student, date) pairs
CopiesSum(att, pairs, c, st) ==
    IF pairs = {} THEN 0
    ELSE LET x == CHOOSE y \in pairs : TRUE
         IN  Copies(att, x[1], c, x[2], st) + CopiesSum(att, pairs \ {x}, c, st)

\* The number of rows of course c with status st
CourseCopies(att, c, st) == CopiesSum(att, Students \X MarkDates, c, st)

\* The table holds for course c the rows of the example of C7, two class days
\* and three records, and no other row.
IsExample(att, c) ==
    /\ Copies(att, "S1", c, Date(2026, 10, 4), TRUE) = 1
    /\ Copies(att, "S1", c, Date(2026, 10, 30), FALSE) = 1
    /\ Copies(att, "S2", c, Date(2026, 10, 4), TRUE) = 1
    /\ CourseCopies(att, c, TRUE) + CourseCopies(att, c, FALSE) = 3

\* Each figure of teacher_dashboard is the count of the rows of its course
\* stored when the figure is queried, and the page lists the courses of the
\* user's Teacher row and only those.
FiguresAtQuery(p) ==
    LET was == conc.procs[p]
        me == conc'.procs[p]
        c == Head(was.todo)
    IN  /\ (~Free(p) /\ was.pc = "classes") =>
              me.cur.total_classes =
                  Cardinality({d \in MarkDates : \E s \in Students : KeyCount(attendance, s, c, d) > 0})
        /\ (~Free(p) /\ was.pc = "records") =>
              me.cur.total_attendance_records =
                  CourseCopies(attendance, c, TRUE) + CourseCopies(attendance, c, FALSE)
        /\ (~Free(p) /\ was.pc = "present") =>
              me.cur.present_count = CourseCopies(attendance, c, TRUE)
        /\ (~Free(p) /\ was.pc = "absent") =>
              /\ me.course_data[c].absent_count = CourseCopies(attendance, c, FALSE)
              /\ me.course_data[c].present_count = was.cur.present_count
              /\ me.course_data[c].total_attendance_records = was.cur.total_attendance_records
              /\ me.course_data[c].total_classes = was.cur.total_classes
        /\ (Answers(p) /\ me.result = "render") =>
              DOMAIN me.course_data = {x \in Courses : CourseTeacher[x] = teacherOf[me.user]}

\* The figures of course c on the page are those of the example of C7.
ExampleFigures(d) ==
    /\ d.present_count = 2 /\ d.absent_count = 1
    /\ d.total_attendance_records = 3 /\ d.total_classes = 2

\* C7 as claimed: teacher_dashboard lists exactly the courses of the user's
\* Teacher row, each figure is the count of the course's rows with status
\* true, with status false, of all its rows and of their distinct dates, the
\* present and absent counts add up to the total, and for the three example
\* rows the figures are 2, 1, 3 and 2.
C7_TeacherAggregation ==
    [][\A p \in Workers :
          StepOf(p, "teacher_dashboard") =>
              /\ FiguresAtQuery(p)
              /\ (Answers(p) /\ conc'.procs[p].result = "render") =>
                    \A c \in DOMAIN conc'.procs[p].course_data :
                        LET d == conc'.procs[p].course_data[c]
                        IN  /\ d.present_count + d.absent_count = d.total_attendance_records
                            /\ IsExample(attendance, c) => ExampleFigures(d)]_vars

\* C7 amended: teacher_dashboard lists exactly the courses of the user's
\* Teacher row, and each figure is the count of the course's rows with status
\* true, with status false, of all its rows and of their distinct dates, as
\* stored when the figure is queried; when no row is saved while the request
\* is served, the present and absent counts add up to the total, and for the
\* three example rows the figures are 2, 1, 3 and 2.
C7_TeacherAggregationAtQuery ==
    [][\A p \in Workers :
          StepOf(p, "teacher_dashboard") =>
              /\ FiguresAtQuery(p)
              /\ (Answers(p) /\ conc'.procs[p].result = "render" /\ Undisturbed(p)') =>
                    \A c \in DOMAIN conc'.procs[p].course_data :
                        LET d == conc'.procs[p].course_data[c]
                        IN  /\ d.present_count + d.absent_count = d.total_attendance_records
                            /\ IsExample(attendance, c) => ExampleFigures(d)]_vars

\* C7 witness: the teacher of the course was shown the figures 2, 1, 3, 2 with
\* the example rows stored and no row saved meanwhile.
C7_Witness ==
    \E p \in Workers :
        /\ conc.procs[p].op = "teacher_dashboard" /\ conc.procs[p].pc = "done"
        /\ conc.procs[p].result = "render" /\ Undisturbed(p)
        /\ "C1" \in DOMAIN conc.procs[p].course_data
        /\ IsExample(attendance, "C1")
        /\ ExampleFigures(conc.procs[p].course_data["C1"])

\* v is p / t in tenths of a percent, rounded to the nearest tenth (and to
\* the even one when p / t lies halfway)
IsRounded(v, p, t) ==
    LET diff == v * t - 1000 * p
        dist == IF diff < 0 THEN 0 - diff ELSE diff
    IN  2 * dist < t \/ (2 * dist = t /\ v % 2 = 0)

\* C8: the overall percentage of the student's summary is the rounded ratio
\* of the sum of the per-course present counts to the sum of the per-course
\* totals, 0 when that sum is 0, and every per-course percentage is the same
\* formula on the course's counts; 9 of 10 and 0 of 1 give 81.8, not 45.0.
C8_PercentageWeighting ==
    calc.done =>
        LET in == calc.in
            out == calc.out
            P == in["C1"].present + in["C2"].present
            T == in["C1"].total + in["C2"].total
        IN  /\ out.total_present = P
            /\ out.total_classes = T
            /\ IF T = 0 THEN out.overall_percentage = 0
               ELSE IsRounded(out.overall_percentage, P, T)
            /\ \A c \in Courses :
                 IF in[c].total = 0 THEN out.course_data[c].attendance_percentage = 0
                 ELSE IsRounded(out.course_data[c].attendance_percentage,
                                in[c].present, in[c].total)
            /\ (in["C1"].present = 9 /\ in["C1"].total = 10 /\ in["C2"].present = 0
                /\ in["C2"].total = 1) => out.overall_percentage = 818

\* C8 witness: the summary of 9 of 10 and 0 of 1 was computed, with per-course
\* percentages 90.0 and 0.0.
C8_Witness ==
    /\ calc.done
    /\ calc.in["C1"].present = 9 /\ calc.in["C1"].total = 10
    /\ calc.in["C2"].present = 0 /\ calc.in["C2"].total = 1
    /\ calc.out.course_data["C1"].attendance_percentage = 900
    /\ calc.out.course_data["C2"].attendance_percentage = 0
    /\ calc.out.overall_percentage = 818

\* C9: when two bulk_attendance POSTs for the same course and date have been
\* served at the same time and both were carried through to the redirect,
\* every student both of them found enrolled has exactly one row for that
\* course and date, and its status is that of the POST that wrote the
\* student's row last.
C9_LastWriteWins ==
    LET p == conc.procs["p"]
        q == conc.procs["q"]
    IN  (/\ p.op = "bulk_attendance" /\ q.op = "bulk_attendance"
         /\ p.pc = "done" /\ q.pc = "done"
         /\ p.result = "redirect" /\ q.result = "redirect"
         /\ p.course = q.course /\ p.date = q.date) =>
            \A s \in p.roster \cap q.roster :
                /\ KeyCount(attendance, s, p.course, ParseDate(p.date)) = 1
                /\ conc.writer[s] # None
                /\ Copies(attendance, s, p.course, ParseDate(p.date),
                          s \in conc.procs[conc.writer[s]].on) = 1

====
